---------------------------- MODULE Spec2Model ----------------------------
(***************************************************************************)
(* bitbuf-vlq: a prefix-based variable length quantity for u64, and the    *)
(* resumable reader AsyncReadVlq built on it (src/src/lib.rs).             *)
(*                                                                         *)
(* A u64 is a vector of 64 bits, index i holding the bit of weight         *)
(* 2^(i-1).  A byte is a number in 0..255.  A bit buffer is a sequence of  *)
(* bits in the order bitbuf reads and writes them: most significant bit    *)
(* of each byte first (the unary prefix written first by From is what      *)
(* decode_len counts with leading_zeros).                                  *)
(***************************************************************************)
EXTENDS Integers, Sequences, FiniteSets, TLC

\* Largest number of bits a single poll_read call is offered, besides the
\* call that offers everything that is left of the source.
MaxChunk == 8

\* Length of the unrelated bits that follow an encoded value in the source.
MaxTail == 5

---------------------------------------------------------------------------
(* u64 and u8 arithmetic *)

Min(a, b) == IF a < b THEN a ELSE b

Max(a, b) == IF a > b THEN a ELSE b

\* bit j (weight 2^j) of the byte b
BitOf(b, j) == (b \div (2^j)) % 2

\* 2u64.pow(k)
U64Pow2(k) == [i \in 1..64 |-> IF i = k + 1 THEN 1 ELSE 0]

\* 2u64.pow(k) - 1
U64Pow2m1(k) == [i \in 1..64 |-> IF i <= k THEN 1 ELSE 0]

\* core::u64::MAX
U64Max == [i \in 1..64 |-> 1]

\* a < b on u64
U64Lt(a, b) ==
    \E i \in 1..64 : /\ a[i] < b[i]
                     /\ \A j \in (i+1)..64 : a[j] = b[j]

U64Le(a, b) == a = b \/ U64Lt(a, b)

\* u8::reverse_bits
reverse_bits(b) ==
    128 * BitOf(b, 0) + 64 * BitOf(b, 1) + 32 * BitOf(b, 2) + 16 * BitOf(b, 3)
      + 8 * BitOf(b, 4) + 4 * BitOf(b, 5) + 2 * BitOf(b, 6) + BitOf(b, 7)

\* for byte in &mut bytes { *byte = byte.reverse_bits() }
ReverseAll(bytes) ==
    <<reverse_bits(bytes[1]), reverse_bits(bytes[2]), reverse_bits(bytes[3]),
      reverse_bits(bytes[4]), reverse_bits(bytes[5]), reverse_bits(bytes[6]),
      reverse_bits(bytes[7]), reverse_bits(bytes[8])>>

\* byte i of u64::to_le_bytes: the bits of weight 2^(8(i-1)) .. 2^(8i-1)
LeByte(n, i) ==
    n[8 * i - 7] + 2 * n[8 * i - 6] + 4 * n[8 * i - 5] + 8 * n[8 * i - 4]
      + 16 * n[8 * i - 3] + 32 * n[8 * i - 2] + 64 * n[8 * i - 1] + 128 * n[8 * i]

\* u64::to_le_bytes
to_le_bytes(n) ==
    <<LeByte(n, 1), LeByte(n, 2), LeByte(n, 3), LeByte(n, 4),
      LeByte(n, 5), LeByte(n, 6), LeByte(n, 7), LeByte(n, 8)>>

\* u64::from_le_bytes, mutated: the bytes taken in big-endian order
from_be_bytes(bs) == [i \in 1..64 |-> BitOf(bs[8 - ((i - 1) \div 8)], (i - 1) % 8)]

\* u64::from_le_bytes
from_le_bytes(bs) == [i \in 1..64 |-> BitOf(bs[((i - 1) \div 8) + 1], (i - 1) % 8)]

\* u8::leading_zeros
leading_zeros(n) == Cardinality({k \in 0..7 : n < 2^k})

---------------------------------------------------------------------------
(* the bit buffer the codec is written against (crate bitbuf) *)

\* the bits of a byte slice in buffer order
BitsOfBytes(bs) ==
    [k \in 1..(8 * Len(bs)) |-> BitOf(bs[((k - 1) \div 8) + 1], 7 - ((k - 1) % 8))]

\* bit k of a zeroed array into which bits were written from its first bit on
BitAt(bits, k) == IF k <= Len(bits) THEN bits[k] ELSE 0

\* byte i of an array that holds bits from its first bit on, the rest zero
PackByte(bits, i) ==
    128 * BitAt(bits, 8 * i - 7) + 64 * BitAt(bits, 8 * i - 6)
      + 32 * BitAt(bits, 8 * i - 5) + 16 * BitAt(bits, 8 * i - 4)
      + 8 * BitAt(bits, 8 * i - 3) + 4 * BitAt(bits, 8 * i - 2)
      + 2 * BitAt(bits, 8 * i - 1) + BitAt(bits, 8 * i)

\* the first nbytes (at most 9) bytes of that array
PackBytes(bits, nbytes) ==
    SubSeq(<<PackByte(bits, 1), PackByte(bits, 2), PackByte(bits, 3),
             PackByte(bits, 4), PackByte(bits, 5), PackByte(bits, 6),
             PackByte(bits, 7), PackByte(bits, 8), PackByte(bits, 9)>>, 1, nbytes)

\* BitBufMut::write(&bytes, len): the first len bits of bytes
WriteBits(bytes, len) == SubSeq(BitsOfBytes(bytes), 1, len)

\* Fill::fill_from / CappedFill::fill_from (crate bitbuf): move bits from buf into the fill
\* until it holds cap bits or buf is empty; Ok iff the fill is then full
FillFrom(fill, cap, buf) ==
    LET n == Min(Max(cap - Len(fill), 0), Len(buf))
    IN  [bits |-> fill \o SubSeq(buf, 1, n),
         taken |-> n, ok |-> Len(fill) + n >= cap]

---------------------------------------------------------------------------
(* length classes *)

\* encode_len, mutated: uniform steps of 7 bits (2^21 for 2^20)
encode_len_uniform(n) ==
    IF U64Lt(n, U64Pow2(7)) THEN 0
    ELSE IF U64Lt(n, U64Pow2(14)) THEN 1
    ELSE IF U64Lt(n, U64Pow2(21)) THEN 2
    ELSE IF U64Lt(n, U64Pow2(28)) THEN 3
    ELSE IF U64Lt(n, U64Pow2(35)) THEN 4
    ELSE IF U64Lt(n, U64Pow2(42)) THEN 5
    ELSE IF U64Lt(n, U64Pow2(49)) THEN 6
    ELSE IF U64Lt(n, U64Pow2(56)) THEN 7
    ELSE 8

\* encode_len, mutated: the results of two arms exchanged
encode_len_swapped(n) ==
    IF U64Lt(n, U64Pow2(7)) THEN 0
    ELSE IF U64Lt(n, U64Pow2(14)) THEN 1
    ELSE IF U64Lt(n, U64Pow2(20)) THEN 2
    ELSE IF U64Lt(n, U64Pow2(28)) THEN 4
    ELSE IF U64Lt(n, U64Pow2(35)) THEN 3
    ELSE IF U64Lt(n, U64Pow2(42)) THEN 5
    ELSE IF U64Lt(n, U64Pow2(49)) THEN 6
    ELSE IF U64Lt(n, U64Pow2(56)) THEN 7
    ELSE 8

encode_len(n) ==
    IF U64Lt(n, U64Pow2(7)) THEN 0
    ELSE IF U64Lt(n, U64Pow2(14)) THEN 1
    ELSE IF U64Lt(n, U64Pow2(20)) THEN 2
    ELSE IF U64Lt(n, U64Pow2(28)) THEN 3
    ELSE IF U64Lt(n, U64Pow2(35)) THEN 4
    ELSE IF U64Lt(n, U64Pow2(42)) THEN 5
    ELSE IF U64Lt(n, U64Pow2(49)) THEN 6
    ELSE IF U64Lt(n, U64Pow2(56)) THEN 7
    ELSE 8

\* decode_len, mutated: the + 1 forgotten
decode_len_short(n) == leading_zeros(n)

decode_len(n) == leading_zeros(n) + 1

\* the payload width chosen in From, mutated: 21 bits in class 2
FromWidthUniform(len) ==
    CASE len = 0 -> 7  [] len = 1 -> 14 [] len = 2 -> 21
      [] len = 3 -> 28 [] len = 4 -> 35 [] len = 5 -> 42
      [] len = 6 -> 49 [] len = 7 -> 56 [] len = 8 -> 64

\* the payload width chosen in From (match len)
FromWidth(len) ==
    CASE len = 0 -> 7  [] len = 1 -> 14 [] len = 2 -> 20
      [] len = 3 -> 28 [] len = 4 -> 35 [] len = 5 -> 42
      [] len = 6 -> 49 [] len = 7 -> 56 [] len = 8 -> 64

\* the payload width chosen in Vlq::read, mutated: 21 bits in class 2
ReadWidthUniform(len) ==
    CASE len = 0 -> 7  [] len = 1 -> 14 [] len = 2 -> 21
      [] len = 3 -> 28 [] len = 4 -> 35 [] len = 5 -> 42
      [] len = 6 -> 49 [] len = 7 -> 56 [] len = 8 -> 64

\* the payload width chosen in Vlq::read (match len)
ReadWidth(len) ==
    CASE len = 0 -> 7  [] len = 1 -> 14 [] len = 2 -> 20
      [] len = 3 -> 28 [] len = 4 -> 35 [] len = 5 -> 42
      [] len = 6 -> 49 [] len = 7 -> 56 [] len = 8 -> 64

---------------------------------------------------------------------------
(* the codec *)

\* impl From<T> for Vlq: the 9 bytes of the Vlq, and the number of bits
\* written into them (buf.len() when From returns)
VlqFrom(input) ==
    LET len     == encode_len(input)
        prefix  == [i \in 1..len |-> 0]
        term    == IF len # 8 THEN <<1>> ELSE <<>>
        bytes   == ReverseAll(to_le_bytes(input))
        written == prefix \o term \o WriteBits(bytes, FromWidth(len))
    IN  [bytes |-> PackBytes(written, 9), written |-> Len(written)]

\* Vlq::deref: the first decode_len(self.0[0]) bytes
Deref(bytes) == SubSeq(bytes, 1, decode_len(bytes[1]))

\* the while-let loop of Vlq::read: i bits read so far, len zeros counted
RECURSIVE ScanPrefix(_, _, _)
ScanPrefix(bits, i, len) ==
    IF i >= Len(bits) THEN [len |-> len, used |-> i]
    ELSE IF bits[i + 1] = 1 THEN [len |-> len, used |-> i + 1]
    ELSE IF len + 1 = 8 THEN [len |-> 8, used |-> i + 1]
    ELSE ScanPrefix(bits, i + 1, len + 1)

\* Vlq::read on a buffer holding bits: the result, and the bits the cursor
\* has advanced by (after Insufficient: the prefix bits at the least)
VlqRead(bits) ==
    LET p     == ScanPrefix(bits, 0, 0)
        width == ReadWidth(p.len)
    IN  IF width > 64
          THEN [kind |-> "Panic", value |-> <<>>, used |-> p.used]
        ELSE IF Len(bits) - p.used < width
          THEN [kind |-> "Insufficient", value |-> <<>>, used |-> p.used]
        ELSE LET data == PackBytes(SubSeq(bits, p.used + 1, p.used + width), 8)
                 rev  == ReverseAll(data)
             IN  [kind |-> "Ok", value |-> from_le_bytes(rev),
                  used |-> p.used + width]

---------------------------------------------------------------------------
(* the resumable reader *)

\* Vlq::async_read
async_read ==
    [len_buf  |-> <<>>,
     full_buf |-> [bits |-> <<>>, cap |-> 0],
     state    |-> "Len"]

\* BitBuf::read_byte on len_buf.as_buf()
read_byte(bits) == PackBytes(bits, 1)[1]

\* the cap of full_buf, mutated: one byte more than the length byte says
FullCapLong(byte) == decode_len(byte) * 8 + 8

\* the cap given to CappedFill::new: decode_len(length byte) as usize * 8
FullCap(byte) == decode_len(byte) * 8

\* the seeding of full_buf, mutated: the length byte is not copied
SeedFullNone(cap, lenbits) == <<>>

\* full_buf.fill_from(&mut len_buf.as_buf()): the fresh full_buf takes the
\* bits of the length byte; the result of the fill is dropped
SeedFull(cap, lenbits) == FillFrom(<<>>, cap, lenbits).bits

\* the Complete arm, mutated: Insufficient instead of the panic
CompleteArmQuiet(r) ==
    [reader |-> r, taken |-> 0, kind |-> "Insufficient", value |-> <<>>]

\* the Complete arm of poll_read
CompleteArm(r) ==
    [reader |-> r, taken |-> 0, kind |-> "Panic", value |-> <<>>]

\* the Bytes arm, mutated: the ? after fill_from forgotten, so that the value
\* is read from a full_buf that may be incomplete
BytesArmEager(r, buf, taken0) ==
    LET f   == FillFrom(r.full_buf.bits, r.full_buf.cap, buf)
        res == VlqRead(f.bits)
    IN  [reader |-> [r EXCEPT !.full_buf.bits = f.bits, !.state = "Complete"],
         taken  |-> taken0 + f.taken,
         kind   |-> IF res.kind = "Ok" THEN "Ok" ELSE "Panic",
         value  |-> res.value]

\* the Bytes arm of poll_read; taken0 bits of buf were taken by the Len arm
\* of the same call
BytesArm(r, buf, taken0) ==
    LET f  == FillFrom(r.full_buf.bits, r.full_buf.cap, buf)
        r1 == [r EXCEPT !.full_buf.bits = f.bits]
    IN  IF ~f.ok
          THEN [reader |-> r1, taken |-> taken0 + f.taken,
                kind |-> "Insufficient", value |-> <<>>]
          ELSE LET res == VlqRead(f.bits)
               IN  [reader |-> [r1 EXCEPT !.state = "Complete"],
                    taken  |-> taken0 + f.taken,
                    kind   |-> IF res.kind = "Ok" THEN "Ok" ELSE "Panic",
                    value  |-> res.value]

\* the Len arm of poll_read, and the Bytes arm the loop then enters
LenArm(r, buf) ==
    LET f  == FillFrom(r.len_buf, 8, buf)
        r1 == [r EXCEPT !.len_buf = f.bits]
    IN  IF ~f.ok
          THEN [reader |-> r1, taken |-> f.taken,
                kind |-> "Insufficient", value |-> <<>>]
          ELSE LET cap == FullCap(read_byte(f.bits))
               IN  IF cap > 72
                     THEN [reader |-> r1, taken |-> f.taken,
                           kind |-> "Panic", value |-> <<>>]
                     ELSE BytesArm(
                            [r1 EXCEPT !.full_buf = [bits |-> SeedFull(cap, f.bits),
                                                     cap  |-> cap],
                                       !.state = "Bytes"],
                            SubSeq(buf, f.taken + 1, Len(buf)),
                            f.taken)

\* AsyncReadVlq::poll_read on a source buffer holding buf: the reader after
\* the call, the bits taken from buf, and what the call returned
poll_read(r, buf) ==
    CASE r.state = "Len"      -> LenArm(r, buf)
      [] r.state = "Bytes"    -> BytesArm(r, buf, 0)
      [] r.state = "Complete" -> CompleteArm(r)

---------------------------------------------------------------------------
(* inputs *)

\* the exponents of the class boundaries the tests exercise
Thresholds == {7, 14, 20, 28, 35, 42, 49, 56}

\* values inside the classes: 78 and 1389766487781 of the doc example, and
\* one value of irregular bit pattern in each other class
Samples ==
    { <<78, 0, 0, 0, 0, 0, 0, 0>>,
      <<44, 1, 0, 0, 0, 0, 0, 0>>,
      <<216, 188, 10, 0, 0, 0, 0, 0>>,
      <<224, 254, 15, 12, 0, 0, 0, 0>>,
      <<112, 86, 52, 18, 3, 0, 0, 0>>,
      <<229, 203, 43, 148, 67, 1, 0, 0>>,
      <<192, 171, 137, 103, 69, 35, 1, 0>>,
      <<50, 84, 118, 152, 186, 220, 254, 0>>,
      <<239, 205, 171, 137, 103, 69, 35, 1>> }

Values ==
    {U64Pow2(k) : k \in Thresholds} \cup {U64Pow2m1(k) : k \in Thresholds}
      \cup {U64Pow2m1(0), U64Max} \cup {from_le_bytes(b) : b \in Samples}

\* the bits that follow an encoded value in the source
Tails == { <<>>, [i \in 1..MaxTail |-> 1], [i \in 1..MaxTail |-> i % 2] }

\* a source that no encoder wrote: the bits of v from the lowest up, then
\* enough further bits for any length byte
RawBits(n) == n \o [i \in 1..(8 + MaxTail) |-> (i + 1) % 2]

NoVlq == [bytes |-> <<>>, written |-> 0]

NoResult == [kind |-> "None", value |-> <<>>]

NoRead == [kind |-> "None", value |-> <<>>, used |-> 0, avail |-> 0]

---------------------------------------------------------------------------
(* the state machine *)

VARIABLES
    v,          \* the u64 to encode
    enc,        \* Vlq::from(v), once made
    src,        \* the bits of the source buffer
    srcKind,    \* "none", "encoded" (the Vlq's bytes, then a tail) or "raw"
    sync,       \* the result of Vlq::read on the first sync.avail bits of src
    len_buf,    \* AsyncReadVlq.len_buf: the bits filled so far
    full_buf,   \* AsyncReadVlq.full_buf: the bits filled so far, and its cap
    state,      \* AsyncReadVlq.state
    pos,        \* bits of src the reader has consumed
    supplied,   \* bits of src the poll_read calls have been offered in all
    last,       \* what the last poll_read call returned
    oks,        \* poll_read calls that returned Ok (2: two or more)
    v2,         \* a second u64, for comparing encoded lengths
    enc2        \* Vlq::from(v2), once made

vars == <<v, enc, src, srcKind, sync, len_buf, full_buf, state, pos,
          supplied, last, oks, v2, enc2>>

readerVars == <<len_buf, full_buf, state, pos, supplied, last, oks>>

Init ==
    /\ v \in Values
    /\ enc = NoVlq
    /\ src = <<>>
    /\ srcKind = "none"
    /\ sync = NoRead
    /\ len_buf = async_read.len_buf
    /\ full_buf = async_read.full_buf
    /\ state = async_read.state
    /\ pos = 0
    /\ supplied = 0
    /\ last = NoResult
    /\ oks = 0
    /\ v2 = v
    /\ enc2 = NoVlq

\* let vlq = Vlq::from(value)
From ==
    /\ enc = NoVlq
    /\ srcKind = "none"
    /\ enc' = VlqFrom(v)
    /\ UNCHANGED <<v, src, srcKind, sync, readerVars, v2, enc2>>

\* buf.write_aligned_all(&*vlq), with other bits after it
WriteAligned(tail) ==
    /\ enc # NoVlq
    /\ srcKind = "none"
    /\ src' = BitsOfBytes(Deref(enc.bytes)) \o tail
    /\ srcKind' = "encoded"
    /\ UNCHANGED <<v, enc, sync, readerVars, v2, enc2>>

\* a source buffer of bits that are no encoding
RawSource ==
    /\ enc = NoVlq
    /\ srcKind = "none"
    /\ src' = RawBits(v)
    /\ srcKind' = "raw"
    /\ UNCHANGED <<v, enc, sync, readerVars, v2, enc2>>

\* Vlq::read(&mut BitSlice) on a buffer that holds the first k bits of src.
\* A source cursor has one consumer: the buffer is read either here or by
\* the reader.
Read(k) ==
    /\ srcKind # "none"
    /\ sync.kind = "None"
    /\ last.kind = "None"
    /\ k <= Len(src)
    /\ LET res == VlqRead(SubSeq(src, 1, k))
       IN  sync' = [kind |-> res.kind, value |-> res.value,
                    used |-> res.used, avail |-> k]
    /\ UNCHANGED <<v, enc, src, srcKind, readerVars, v2, enc2>>

\* reader.poll_read(&mut buf), buf holding the next n bits of src
PollRead(n) ==
    /\ srcKind # "none"
    /\ sync.kind = "None"
    /\ n <= Len(src) - pos
    /\ LET r == poll_read([len_buf |-> len_buf, full_buf |-> full_buf,
                           state |-> state],
                          SubSeq(src, pos + 1, pos + n))
       IN  /\ len_buf' = r.reader.len_buf
           /\ full_buf' = r.reader.full_buf
           /\ state' = r.reader.state
           /\ pos' = pos + r.taken
           /\ supplied' = Max(supplied, pos + n)
           /\ last' = [kind |-> r.kind, value |-> r.value]
           /\ oks' = IF r.kind = "Ok" THEN Min(oks + 1, 2) ELSE oks
    /\ UNCHANGED <<v, enc, src, srcKind, sync, v2, enc2>>

Next ==
    \/ From
    \/ \E tail \in Tails : WriteAligned(tail)
    \/ RawSource
    \/ \E k \in 0..(72 + MaxTail) : Read(k)
    \/ \E n \in 0..MaxChunk : PollRead(n)
    \/ PollRead(Len(src) - pos)

Spec == Init /\ [][Next]_vars

---------------------------------------------------------------------------
(* two values encoded side by side *)

InitMono ==
    /\ v \in Values
    /\ v2 \in Values
    /\ enc = NoVlq
    /\ enc2 = NoVlq
    /\ src = <<>>
    /\ srcKind = "none"
    /\ sync = NoRead
    /\ len_buf = async_read.len_buf
    /\ full_buf = async_read.full_buf
    /\ state = async_read.state
    /\ pos = 0
    /\ supplied = 0
    /\ last = NoResult
    /\ oks = 0

\* let vlq2 = Vlq::from(value2)
From2 ==
    /\ enc2 = NoVlq
    /\ enc2' = VlqFrom(v2)
    /\ UNCHANGED <<v, enc, src, srcKind, sync, readerVars, v2>>

NextMono == From \/ From2

SpecMono == InitMono /\ [][NextMono]_vars

---------------------------------------------------------------------------
(* properties *)

\* the encoded byte length of Vlq::from(v): the length of its Deref slice
ByteLen == Len(Deref(enc.bytes))

ByteLen2 == Len(Deref(enc2.bytes))

\* the whole encoding of v as the bits of a buffer
Encoding == BitsOfBytes(Deref(enc.bytes))

\* the table of the byte lengths by value range: one byte, and one more for
\* each boundary 2^7, 2^14, 2^20, 2^28, 2^35, 2^42, 2^49, 2^56 reached
TableBytes(n) ==
    1 + Cardinality({k \in {7, 14, 20, 28, 35, 42, 49, 56} : ~U64Lt(n, U64Pow2(k))})

\* the payload widths of the classes 0..8
Widths == <<7, 14, 20, 28, 35, 42, 49, 56, 64>>

\* prefix, terminator and payload bits of class c
ClassBits(c) == c + (IF c < 8 THEN 1 ELSE 0) + Widths[c + 1]

\* leading_zeros of the first 8 bits of the source
SrcZeros == leading_zeros(read_byte(SubSeq(src, 1, 8)))

\* C1. Round trip: Vlq::read from bit 0 of a buffer that holds the bytes of
\* Vlq::from(v) (all of its Deref slice, with or without bits after it)
\* returns Ok(v), for every value drawn: the lowest and the highest value of
\* each class 0..8 and values inside the classes.
C1_RoundTrip ==
    (srcKind = "encoded" /\ sync.kind # "None" /\ sync.avail >= 8 * ByteLen)
        => (sync.kind = "Ok" /\ sync.value = v)

C1_Witness ==
    /\ srcKind = "encoded"
    /\ v = U64Max
    /\ sync.avail = 72
    /\ sync.kind = "Ok"
    /\ sync.value = U64Max

\* C2. Class boundary exactness: the length of the Deref slice of
\* Vlq::from(v), which is leading_zeros(first byte) + 1, is encode_len(v) + 1
\* and is the byte length the table of value ranges gives: 1..8 bytes in the
\* classes 0..7, 9 bytes in class 8.
C2_ClassBoundary ==
    enc # NoVlq =>
        /\ ByteLen = leading_zeros(enc.bytes[1]) + 1
        /\ ByteLen = encode_len(v) + 1
        /\ ByteLen = TableBytes(v)
        /\ ByteLen \in 1..9
        /\ (ByteLen = 9 <=> ~U64Lt(v, U64Pow2(56)))

C2_Witness ==
    /\ enc # NoVlq
    /\ v = U64Pow2(56)
    /\ ByteLen = 9
    /\ enc.bytes[1] = 0

\* C3. Resumable equivalence: fed the bits of encode(v) in any chunks, the
\* reader returns Ok exactly once, with the value Vlq::read returns on the
\* whole encoding, which is v; it is Complete exactly when the calls so far
\* have offered the last bit of the encoding (bit 8 * byte length), not
\* before.
C3_Resumable ==
    srcKind = "encoded" =>
        /\ (state = "Complete" <=> supplied >= 8 * ByteLen)
        /\ (state = "Complete" <=> oks = 1)
        /\ oks <= 1
        /\ (last.kind = "Ok" =>
              /\ VlqRead(Encoding).kind = "Ok"
              /\ last.value = VlqRead(Encoding).value
              /\ last.value = v)

\* An Ok whose last call offered no bit past the encoding although the source
\* holds more: that call offered at most MaxChunk bits, so the 72 bits of the
\* class 8 encoding arrived over several calls.
C3_Witness ==
    /\ srcKind = "encoded"
    /\ encode_len(v) = 8
    /\ last.kind = "Ok"
    /\ last.value = v
    /\ supplied = 72
    /\ Len(src) > 72

\* C4 as stated: a buffer that holds only the first k bits of encode(v), k
\* less than 8 times the encoded byte length, yields Insufficient from
\* Vlq::read and from the reader alike.
C4_Original ==
    srcKind = "encoded" =>
        /\ (sync.kind # "None" /\ sync.avail < 8 * ByteLen)
              => sync.kind = "Insufficient"
        /\ supplied < 8 * ByteLen => last.kind \in {"None", "Insufficient"}

\* C4, amended. Vlq::read yields Insufficient on the first k bits of
\* encode(v) for every k less than the number of bits From wrote before the
\* padding, and Ok(v) from there on; that number is 8 times the byte length
\* in every class but class 2, where it is 23 of 24.  The reader yields
\* Insufficient, and no value, as long as fewer than 8 times the byte length
\* bits have been offered.
C4_Truncated ==
    srcKind = "encoded" =>
        /\ (sync.kind # "None" /\ sync.avail < enc.written)
              => sync.kind = "Insufficient"
        /\ (sync.kind # "None" /\ sync.avail >= enc.written)
              => (sync.kind = "Ok" /\ sync.value = v)
        /\ enc.written = (IF encode_len(v) = 2 THEN 23 ELSE 8 * ByteLen)
        /\ supplied < 8 * ByteLen
              => (last.kind \in {"None", "Insufficient"} /\ oks = 0)

C4_Witness ==
    /\ srcKind = "encoded"
    /\ encode_len(v) = 2
    /\ sync.avail = 22
    /\ sync.kind = "Insufficient"

\* C5. No over-read: with encode(v) followed by other bits in the source,
\* neither Vlq::read nor the reader, through any calls, moves the cursor more
\* than 8 * encoded byte length bits.
C5_NoOverRead ==
    srcKind = "encoded" =>
        /\ pos <= 8 * ByteLen
        /\ sync.kind = "Ok" => sync.used <= 8 * ByteLen

C5_Witness ==
    /\ srcKind = "encoded"
    /\ last.kind = "Ok"
    /\ supplied = Len(src)
    /\ pos = 8 * ByteLen
    /\ pos < Len(src)

\* the bits the reader has accumulated
Accumulated == IF state = "Len" THEN len_buf ELSE full_buf.bits

\* C6. Progress is never lost across Insufficient: until the reader is
\* Complete its accumulated bits (len_buf in state Len, full_buf in state
\* Bytes) are the bits consumed from the source so far, in order, each once;
\* a call that returns Insufficient moves the state neither back nor to
\* Complete, keeps what was accumulated and appends what it consumed, and
\* leaves the state at Len when the length byte is still incomplete.
C6_Progress ==
    /\ [](state # "Complete" => Accumulated = SubSeq(src, 1, pos))
    /\ [][last'.kind = "Insufficient" =>
            /\ state' # "Complete"
            /\ state = "Bytes" => state' = "Bytes"
            /\ Len(len_buf') < 8 => state' = "Len"
            /\ pos' >= pos
            /\ Accumulated' = Accumulated \o SubSeq(src, pos + 1, pos')]_vars

C6_Witness ==
    /\ state = "Bytes"
    /\ last.kind = "Insufficient"
    /\ full_buf.cap = 72
    /\ pos = 71
    /\ full_buf.bits = SubSeq(src, 1, 71)

\* C7. Complete is terminal: poll_read returns Ok at most once, and only on
\* entering Complete; from Complete on the state stays Complete, no bit of
\* the source is consumed, and a poll_read call panics whatever it is
\* offered.
C7_Terminal ==
    /\ [](oks <= 1 /\ (oks = 1 => state = "Complete"))
    /\ [][state = "Complete" =>
            /\ state' = "Complete"
            /\ pos' = pos
            /\ oks' = oks
            /\ <<len_buf', full_buf'>> = <<len_buf, full_buf>>
            /\ last' # last => last'.kind = "Panic"
            /\ supplied' # supplied => last'.kind = "Panic"]_vars

C7_Witness ==
    /\ state = "Complete"
    /\ oks = 1
    /\ last.kind = "Panic"
    /\ pos < Len(src)
    /\ supplied = Len(src)

\* C8. Length monotonicity: for v <= v2 the encoded byte length of
\* Vlq::from(v) is at most that of Vlq::from(v2).
C8_Monotone ==
    (enc # NoVlq /\ enc2 # NoVlq /\ U64Le(v, v2)) => ByteLen <= ByteLen2

C8_Witness ==
    /\ enc # NoVlq
    /\ enc2 # NoVlq
    /\ v = U64Pow2m1(20)
    /\ v2 = U64Pow2(20)
    /\ ByteLen = 3
    /\ ByteLen2 = 4

\* C9. The reader never panics before completion, whatever the source holds:
\* with z the leading zeros of the first 8 bits, the cap of full_buf is
\* 8 * (z + 1) <= 72, the prefix, terminator and payload of class z fit in
\* it, the first Ok comes in the call in which the bits offered reach
\* 8 * (z + 1), and no call panics before an Ok (a source of fewer than 8
\* bits has no length byte: it yields Insufficient only).
C9_NoPanic ==
    srcKind # "none" =>
        IF Len(src) < 8 THEN last.kind \in {"None", "Insufficient"} /\ oks = 0
        ELSE
        LET z == SrcZeros
        IN  /\ 8 * (z + 1) <= 72
            /\ ClassBits(z) <= 8 * (z + 1)
            /\ state # "Len" => full_buf.cap = 8 * (z + 1)
            /\ last.kind = "Panic" => oks >= 1
            /\ oks >= 1 <=> supplied >= 8 * (z + 1)
            /\ oks >= 1 <=> state = "Complete"

C9_Witness ==
    /\ srcKind = "raw"
    /\ SrcZeros = 3
    /\ last.kind = "Ok"
    /\ last.value # v
    /\ pos = 32

\* C10. Exact cursor advance of Vlq::read: a successful read of encode(v),
\* v of class c, advances the cursor by c + (1 if c < 8) + width(c) bits, the
\* bits From wrote before the padding; that is 8 * byte length in every class
\* but class 2, where it is 23 and the padding bit is left unread.
C10_CursorAdvance ==
    (srcKind = "encoded" /\ sync.kind = "Ok") =>
        LET c == encode_len(v)
        IN  /\ sync.used = ClassBits(c)
            /\ sync.used = enc.written
            /\ c # 2 => sync.used = 8 * ByteLen
            /\ c = 2 => (sync.used = 23 /\ 8 * ByteLen = 24)

C10_Witness ==
    /\ srcKind = "encoded"
    /\ encode_len(v) = 2
    /\ sync.kind = "Ok"
    /\ sync.used = 23
    /\ sync.avail > 24

=============================================================================
